---- MODULE Spec2Model ----
(***************************************************************************)
(* Model of scatcov/scattering_network/scale_indexer.py: class             *)
(* ScaleIndexer.  The constructor runs five steps in order                 *)
(* (create_sc_paths, construct_path_coding_dicts, create_sc_idces,         *)
(* compute_low_pass_mask, checks); each step is one action.  Afterwards    *)
(* the object is read-only and serves the queries path_to_idx,             *)
(* idx_to_path, r and is_low_pass.                                         *)
(*                                                                         *)
(* Encodings.  A path (Python tuple / numpy row) is a TLA+ sequence of     *)
(* integers.  An OrderedDict is a sequence of records [key, val] in        *)
(* insertion order with distinct keys.  A numpy table of shape (n, r) is   *)
(* a sequence of n rows; the 1-D empty array np.array([]) is <<>>.         *)
(* A query result is a record [err, val]; err names the Python exception   *)
(* the call raises ("none" when it returns).                               *)
(***************************************************************************)
EXTENDS Integers, Sequences, FiniteSets, TLC

VARIABLES J, Qs, r_max, sc_paths, p_coding, p_decoding, sc_idces,
          low_pass_mask, pc, err, last

vars == <<J, Qs, r_max, sc_paths, p_coding, p_decoding, sc_idces,
          low_pass_mask, pc, err, last>>

\* Bounds of the explored configurations.
MaxJ == 2
MaxQ == 2
MaxOrder == 3

\* pd.NA, the missing-value marker of idx_to_path(squeeze=False), encoded as
\* an integer that is neither a coordinate (>= 0) nor the sentinel -1.
NA == -2

Max(a, b) == IF a >= b THEN a ELSE b

BoolToInt(b) == IF b THEN 1 ELSE 0

\* All sequences over S of length 0..n.
SeqsUpTo(S, n) == UNION {[1..k -> S] : k \in 0..n}

(***************************************************************************)
(* Python / numpy primitives used by the class.                            *)
(***************************************************************************)

\* range(n) as a sequence: 0, 1, ..., n-1 (empty when n <= 0).
Range(n) == [i \in 1..Max(n, 0) |-> i - 1]

\* itertools.product(*ranges): all tuples, in lexicographic order.
RECURSIVE Product(_)
Product(ranges) ==
    IF Len(ranges) = 0 THEN << <<>> >>
    ELSE LET prev == Product(SubSeq(ranges, 1, Len(ranges) - 1))
             rng == ranges[Len(ranges)]
             n == Len(rng)
         IN [i \in 1..(Len(prev) * n) |->
                Append(prev[((i - 1) \div n) + 1], rng[((i - 1) % n) + 1])]

\* itertools.chain.from_iterable(tables): the rows of all tables in order.
RECURSIVE Chain(_)
Chain(tables) ==
    IF Len(tables) = 0 THEN <<>>
    ELSE tables[1] \o Chain(Tail(tables))

\* Python's tuple comparison t1 < t2 (lexicographic, a proper prefix is less).
RECURSIVE TupleLess(_, _)
TupleLess(t1, t2) ==
    IF Len(t2) = 0 THEN FALSE
    ELSE IF Len(t1) = 0 THEN TRUE
    ELSE IF t1[1] # t2[1] THEN t1[1] < t2[1]
    ELSE TupleLess(Tail(t1), Tail(t2))

\* OrderedDict membership, lookup and construction from items.
DictHas(d, k) == \E i \in 1..Len(d) : d[i].key = k

DictGet(d, k) == d[CHOOSE i \in 1..Len(d) : d[i].key = k].val

\* d.update(items): a key keeps the place of its first insertion and takes
\* the value of its last assignment.
DictUpdate(d, items) ==
    LET all == d \o items
        isFirst(i) == \A k \in 1..(i - 1) : all[k].key # all[i].key
        firsts == SelectSeq([i \in 1..Len(all) |-> i], isFirst)
        lastOf(i) == CHOOSE k \in i..Len(all) :
                        /\ all[k].key = all[i].key
                        /\ \A m \in (k + 1)..Len(all) : all[m].key # all[i].key
    IN [n \in 1..Len(firsts) |->
            [key |-> all[firsts[n]].key, val |-> all[lastOf(firsts[n])].val]]

DictKeys(d) == [i \in 1..Len(d) |-> d[i].key]

DictValues(d) == [i \in 1..Len(d) |-> d[i].val]

(***************************************************************************)
(* ScaleIndexer.JQ, condition, create_sc_paths                             *)
(***************************************************************************)

\* JQ(r) = J * Qs[r-1] (0-based in the source, 1-based here).
JQ(r) == J * Qs[r]

\* Variant of condition: the scale comparison is not strict.
condition_weak(path) ==
    /\ Len(path) <= r_max
    /\ \A order \in 0..(Len(path) - 2) :
          (path[order + 1] \div Qs[order + 1]) <= (path[order + 2] \div Qs[order + 2])

\* condition(path): len(path) <= r_max and, for each adjacent pair,
\* i // Qs[order] < j // Qs[order+1]   (order counted from 0).
condition(path) ==
    /\ Len(path) <= r_max
    /\ \A order \in 0..(Len(path) - 2) :
          (path[order + 1] \div Qs[order + 1]) < (path[order + 2] \div Qs[order + 2])

\* Variant of create_sc_paths: the ranges stop before the low-pass value.
ScPathsTable_nolowpass(r) ==
    SelectSeq(Product([o \in 1..r |-> Range(JQ(o))]), condition)

\* The table of order r: the product of range(JQ(o+1)+1), o < r, filtered.
ScPathsTable(r) ==
    SelectSeq(Product([o \in 1..r |-> Range(JQ(o) + 1)]), condition)

(***************************************************************************)
(* construct_path_coding_dicts                                             *)
(***************************************************************************)

\* enumerate(...): the i-th element (counted from 0) paired with i.
Enumerate(rows) == [k \in 1..Len(rows) |-> [key |-> rows[k], val |-> k - 1]]

\* coding = OrderedDict({(): 0}); coding = OrderedDict(coding, **{path: i ...})
ConstructCoding(tables) ==
    DictUpdate(<<[key |-> <<>>, val |-> 0]>>, Enumerate(Chain(tables)))

\* decoding = OrderedDict({v: k for k, v in coding.items()})
ConstructDecoding(coding) ==
    DictUpdate(<<>>, [k \in 1..Len(coding) |->
                        [key |-> coding[k].val, val |-> coding[k].key]])

(***************************************************************************)
(* Queries                                                                 *)
(***************************************************************************)

\* np.argmax(path == -1): position (from 0) of the first -1.
ArgmaxSentinel(path) ==
    (CHOOSE i \in 1..Len(path) :
        /\ path[i] = -1
        /\ \A k \in 1..(i - 1) : path[k] # -1) - 1

\* path_to_idx(path): a trailing -1 truncates the path at its first -1.
path_to_idx(path) ==
    LET cut == IF Len(path) > 0 /\ path[Len(path)] = -1
               THEN SubSeq(path, 1, ArgmaxSentinel(path))
               ELSE path
    IN IF DictHas(p_coding, cut)
       THEN [err |-> "none", val |-> DictGet(p_coding, cut)]
       ELSE [err |-> "KeyError", val |-> -1]

\* Variant of idx_to_path: the padding ignores the length of the path.
idx_to_path_fullpad(idx, squeeze) ==
    IF idx = -1 THEN [err |-> "none", val |-> <<>>]
    ELSE IF ~DictHas(p_decoding, idx) THEN [err |-> "KeyError", val |-> <<>>]
    ELSE IF squeeze THEN [err |-> "none", val |-> DictGet(p_decoding, idx)]
    ELSE LET p == DictGet(p_decoding, idx)
         IN [err |-> "none", val |-> p \o [k \in 1..Max(r_max, 0) |-> NA]]

\* idx_to_path(idx, squeeze)
idx_to_path(idx, squeeze) ==
    IF idx = -1 THEN [err |-> "none", val |-> <<>>]
    ELSE IF ~DictHas(p_decoding, idx) THEN [err |-> "KeyError", val |-> <<>>]
    ELSE IF squeeze THEN [err |-> "none", val |-> DictGet(p_decoding, idx)]
    ELSE LET p == DictGet(p_decoding, idx)
         IN [err |-> "none",
             val |-> p \o [k \in 1..Max(r_max - Len(p), 0) |-> NA]]

\* r(idx) = len(idx_to_path(idx))
r(idx) ==
    LET p == idx_to_path(idx, TRUE)
    IN IF p.err # "none" THEN [err |-> p.err, val |-> -1]
       ELSE [err |-> "none", val |-> Len(p.val)]

\* Variant of is_low_pass: the comparison with JQ is strict.
is_low_pass_strict(idx) ==
    LET p == idx_to_path(idx, TRUE)
    IN IF p.err # "none" THEN [err |-> p.err, val |-> FALSE]
       ELSE IF Len(p.val) = 0 THEN [err |-> "IndexError", val |-> FALSE]
       ELSE [err |-> "none", val |-> p.val[Len(p.val)] > JQ(r(idx).val)]

\* is_low_pass(idx) = idx_to_path(idx)[-1] >= JQ(r(idx))
is_low_pass(idx) ==
    LET p == idx_to_path(idx, TRUE)
    IN IF p.err # "none" THEN [err |-> p.err, val |-> FALSE]
       ELSE IF Len(p.val) = 0 THEN [err |-> "IndexError", val |-> FALSE]
       ELSE [err |-> "none", val |-> p.val[Len(p.val)] >= JQ(r(idx).val)]

(***************************************************************************)
(* create_sc_idces, compute_low_pass_mask                                  *)
(***************************************************************************)

\* sc_idces[r] = [path_to_idx(p) for p in sc_paths[r-1]]
ScIdcesTable(table) == [i \in 1..Len(table) |-> path_to_idx(table[i]).val]

\* Variant of compute_low_pass_mask: the last proper wavelet is taken for
\* the low-pass value.
LowPassMaskTable_offbyone(order) ==
    [i \in 1..Len(sc_paths[order]) |->
        sc_paths[order][i][Len(sc_paths[order][i])] = JQ(order) - 1]

\* paths[:, -1] == JQ(order+1), row by row.
LowPassMaskTable(order) ==
    [i \in 1..Len(sc_paths[order]) |->
        sc_paths[order][i][Len(sc_paths[order][i])] = JQ(order)]

\* self.sc_paths[:3]
MaskOrders == 1..(IF Len(sc_paths) < 3 THEN Len(sc_paths) ELSE 3)

(***************************************************************************)
(* checks                                                                  *)
(***************************************************************************)

\* compare(t1, t2): the "order on tuples"; it returns a bool.
compare(t1, t2) ==
    \/ (Len(t1) = Len(t2) /\ TupleLess(t1, t2))
    \/ Len(t1) < Len(t2)

\* cmp_to_key(compare): a < b  iff  compare(a, b) < 0, the bool read as 0/1.
CmpKeyLess(a, b) == BoolToInt(compare(a, b)) < 0

\* sorted(paths, key=cmp_to_key(compare)): a stable sort that only asks
\* a < b.  An element lands after every element less than it and after the
\* earlier elements it is not less than.
Sorted(s) ==
    LET place(i) == Cardinality({k \in 1..Len(s) :
                        \/ CmpKeyLess(s[k], s[i])
                        \/ (k < i /\ ~CmpKeyLess(s[i], s[k]))}) + 1
    IN [n \in 1..Len(s) |-> s[CHOOSE i \in 1..Len(s) : place(i) = n]]

\* A stable argsort of values (positions counted from 1).
StableArgsort(values) ==
    LET place(i) == Cardinality({k \in 1..Len(values) :
                        \/ values[k] < values[i]
                        \/ (k < i /\ values[k] = values[i])}) + 1
    IN [n \in 1..Len(values) |-> CHOOSE i \in 1..Len(values) : place(i) = n]

SwapAt(s, i) ==
    [k \in 1..Len(s) |-> IF k = i THEN s[i + 1] ELSE IF k = i + 1 THEN s[i] ELSE s[k]]

\* np.argsort(values) with the default kind, which is not a stable sort: equal
\* values may come out in either order.  The outcomes explored are the stable
\* one and those exchanging one pair of neighbours with equal values.
ArgsortOutcomes(values) ==
    LET st == StableArgsort(values)
    IN {st} \cup {SwapAt(st, i) : i \in {k \in 1..(Len(st) - 1) :
                                           values[st[k]] = values[st[k + 1]]}}

\* sorted(paths, key=...) == [paths[i] for i in argsort]
OrderCheck(argsort) ==
    LET paths == DictKeys(p_coding)
    IN Sorted(paths) = [i \in 1..Len(argsort) |-> paths[argsort[i]]]

\* np.unique(rows, axis=0): the distinct rows in increasing order.
RECURSIVE SortedRows(_)
SortedRows(S) ==
    IF S = {} THEN <<>>
    ELSE LET m == CHOOSE x \in S : \A y \in S : (y = x \/ TupleLess(x, y))
         IN <<m>> \o SortedRows(S \ {m})

\* collapsed = np.unique(sc_paths[1][:, :-1], axis=0)
Collapsed ==
    SortedRows({SubSeq(sc_paths[2][i], 1, Len(sc_paths[2][i]) - 1) :
                    i \in 1..Len(sc_paths[2])})

\* previous_order = sc_paths[0][~low_pass_mask[0], :]
PreviousOrder ==
    LET keep(i) == ~low_pass_mask[1][i]
        idx == SelectSeq([i \in 1..Len(sc_paths[1]) |-> i], keep)
    IN [k \in 1..Len(idx) |-> sc_paths[1][idx[k]]]

\* np.all(a == b) for two tables of one column: equal row counts compare row
\* by row, a single row is broadcast, any other shapes do not compare equal.
AllEqual(a, b) ==
    IF Len(a) = Len(b) THEN \A i \in 1..Len(a) : a[i] = b[i]
    ELSE IF Len(a) = 1 THEN \A i \in 1..Len(b) : a[1] = b[i]
    ELSE IF Len(b) = 1 THEN \A i \in 1..Len(a) : a[i] = b[1]
    ELSE FALSE

CollapseCheck == AllEqual(Collapsed, PreviousOrder)

\* if all(Q == 1 for Q in Qs): for r in ([2] if r_max >= 2 else [])
CollapseApplies == (\A o \in 1..Len(Qs) : Qs[o] = 1) /\ r_max >= 2

(***************************************************************************)
(* State machine                                                           *)
(***************************************************************************)

\* __init__(J, Qs, r_max): the fields are stored and nothing is validated.
Init ==
    /\ J \in -1..MaxJ
    /\ Qs \in SeqsUpTo(1..MaxQ, MaxOrder)
    /\ r_max \in 0..MaxOrder
    /\ sc_paths = <<>>
    /\ p_coding = <<>>
    /\ p_decoding = <<>>
    /\ sc_idces = <<>>
    /\ low_pass_mask = <<>>
    /\ pc = "create_sc_paths"
    /\ err = "none"
    /\ last = [op |-> "none"]

\* self.sc_paths = self.create_sc_paths(); JQ(o+1) raises IndexError as soon
\* as an order exceeds len(Qs).
CreateScPaths ==
    /\ pc = "create_sc_paths"
    /\ IF r_max > Len(Qs)
       THEN /\ pc' = "failed"
            /\ err' = "IndexError"
            /\ UNCHANGED sc_paths
       ELSE /\ sc_paths' = [o \in 1..r_max |-> ScPathsTable(o)]
            /\ pc' = "construct_path_coding_dicts"
            /\ UNCHANGED err
    /\ UNCHANGED <<J, Qs, r_max, p_coding, p_decoding, sc_idces, low_pass_mask, last>>

\* self.p_coding, self.p_decoding = self.construct_path_coding_dicts()
ConstructPathCodingDicts ==
    /\ pc = "construct_path_coding_dicts"
    /\ p_coding' = ConstructCoding(sc_paths)
    /\ p_decoding' = ConstructDecoding(ConstructCoding(sc_paths))
    /\ pc' = "create_sc_idces"
    /\ UNCHANGED <<J, Qs, r_max, sc_paths, sc_idces, low_pass_mask, err, last>>

\* self.sc_idces = self.create_sc_idces()
CreateScIdces ==
    /\ pc = "create_sc_idces"
    /\ sc_idces' = [o \in 1..r_max |-> ScIdcesTable(sc_paths[o])]
    /\ pc' = "compute_low_pass_mask"
    /\ UNCHANGED <<J, Qs, r_max, sc_paths, p_coding, p_decoding, low_pass_mask, err, last>>

\* self.low_pass_mask = self.compute_low_pass_mask(); paths[:, -1] raises
\* IndexError on an empty (1-D) table.
ComputeLowPassMask ==
    /\ pc = "compute_low_pass_mask"
    /\ IF \E o \in MaskOrders : Len(sc_paths[o]) = 0
       THEN /\ pc' = "failed"
            /\ err' = "IndexError"
            /\ UNCHANGED low_pass_mask
       ELSE /\ low_pass_mask' = [o \in MaskOrders |-> LowPassMaskTable(o)]
            /\ pc' = "checks"
            /\ UNCHANGED err
    /\ UNCHANGED <<J, Qs, r_max, sc_paths, p_coding, p_decoding, sc_idces, last>>

\* self.checks(): the ordering assertion, then the collapse assertion.
Checks ==
    /\ pc = "checks"
    /\ \E argsort \in ArgsortOutcomes(DictValues(p_coding)) :
          IF ~OrderCheck(argsort)
          THEN pc' = "failed" /\ err' = "AssertionError: order"
          ELSE IF CollapseApplies /\ ~CollapseCheck
          THEN pc' = "failed" /\ err' = "AssertionError: collapse"
          ELSE pc' = "ready" /\ UNCHANGED err
    /\ UNCHANGED <<J, Qs, r_max, sc_paths, p_coding, p_decoding, sc_idces, low_pass_mask, last>>

\* Arguments of the path queries: every coded path, as stored or padded with
\* the sentinel -1 to r_max coordinates, and one coordinate beyond them all.
QueryPaths ==
    LET keys == {p_coding[i].key : i \in 1..Len(p_coding)}
    IN keys
       \cup {p \o [k \in 1..(r_max - Len(p)) |-> -1] : p \in keys}
       \cup {<<MaxJ * MaxQ + 1>>}

\* Arguments of the index queries: the sentinel, every assigned index and
\* the first indices past them.
QueryIdces == -1..Len(p_coding)

\* The object is used from one thread and every call is synchronous: a query
\* starts when no call is in progress, and its result is held until the
\* caller has taken it.
PathToIdx ==
    /\ pc = "ready"
    /\ last.op = "none"
    /\ \E path \in QueryPaths :
          last' = [op |-> "path_to_idx", path |-> path, res |-> path_to_idx(path)]
    /\ UNCHANGED <<J, Qs, r_max, sc_paths, p_coding, p_decoding, sc_idces, low_pass_mask, pc, err>>

IdxToPath ==
    /\ pc = "ready"
    /\ last.op = "none"
    /\ \E idx \in QueryIdces, squeeze \in BOOLEAN :
          last' = [op |-> "idx_to_path", idx |-> idx, squeeze |-> squeeze,
                   res |-> idx_to_path(idx, squeeze)]
    /\ UNCHANGED <<J, Qs, r_max, sc_paths, p_coding, p_decoding, sc_idces, low_pass_mask, pc, err>>

IsLowPass ==
    /\ pc = "ready"
    /\ last.op = "none"
    /\ \E idx \in QueryIdces :
          last' = [op |-> "is_low_pass", idx |-> idx, res |-> is_low_pass(idx)]
    /\ UNCHANGED <<J, Qs, r_max, sc_paths, p_coding, p_decoding, sc_idces, low_pass_mask, pc, err>>

R ==
    /\ pc = "ready"
    /\ last.op = "none"
    /\ \E idx \in QueryIdces :
          last' = [op |-> "r", idx |-> idx, res |-> r(idx)]
    /\ UNCHANGED <<J, Qs, r_max, sc_paths, p_coding, p_decoding, sc_idces, low_pass_mask, pc, err>>

\* The query returns to its caller.
Return ==
    /\ pc = "ready"
    /\ last.op # "none"
    /\ last' = [op |-> "none"]
    /\ UNCHANGED <<J, Qs, r_max, sc_paths, p_coding, p_decoding, sc_idces, low_pass_mask, pc, err>>

Next ==
    \/ CreateScPaths
    \/ ConstructPathCodingDicts
    \/ CreateScIdces
    \/ ComputeLowPassMask
    \/ Checks
    \/ PathToIdx
    \/ IdxToPath
    \/ IsLowPass
    \/ R
    \/ Return

Spec == Init /\ [][Next]_vars

(***************************************************************************)
(* Properties                                                              *)
(***************************************************************************)

\* The construction preconditions: J >= 1, len(Qs) >= r_max, r_max >= 1
\* (the entries of Qs are positive in every explored configuration).
Preconditions == J >= 1 /\ Len(Qs) >= r_max /\ r_max >= 1

Malformed == J <= 0 \/ Len(Qs) < r_max \/ r_max <= 0

Constructed == pc = "ready"

\* create_sc_paths has returned (it cannot fail under the preconditions).
PathsBuilt == Preconditions /\ pc # "create_sc_paths"

\* construct_path_coding_dicts has returned.
CodingBuilt == pc \in {"create_sc_idces", "compute_low_pass_mask", "checks", "ready"}
                 \/ (pc = "failed" /\ Len(p_coding) > 0)

Rows(table) == {table[i] : i \in 1..Len(table)}

CodedPaths == Rows(DictKeys(p_coding))

AssignedIdces == Rows(DictKeys(p_decoding))

Index(p) == DictGet(p_coding, p)

\* The monotone order-then-lexicographic numbering of the coding map.
MonotoneNumbering ==
    \A p \in CodedPaths, q \in CodedPaths :
        /\ Len(p) < Len(q) => Index(p) < Index(q)
        /\ Len(p) = Len(q) => (Index(p) < Index(q) <=> TupleLess(p, q))

\* C1: after construction under the preconditions the empty path has index 0
\* and the k-th enumerated path (k = 1..N) has index k, so that the assigned
\* indices are exactly 0..N.
C1_IndexAssignment ==
    (Constructed /\ Preconditions) =>
        LET all == Chain(sc_paths)
        IN /\ path_to_idx(<<>>) = [err |-> "none", val |-> 0]
           /\ \A k \in 1..Len(all) : path_to_idx(all[k]) = [err |-> "none", val |-> k]
           /\ Rows(DictValues(p_coding)) = 0..Len(all)

\* C2: path_to_idx and idx_to_path (squeeze=true) are mutually inverse: every
\* coded path, the empty one included, is returned by idx_to_path from its
\* index, and every assigned index is returned by path_to_idx from its path.
C2_Bijection ==
    (Constructed /\ Preconditions) =>
        /\ \A p \in CodedPaths :
              idx_to_path(path_to_idx(p).val, TRUE) = [err |-> "none", val |-> p]
        /\ \A i \in AssignedIdces :
              path_to_idx(idx_to_path(i, TRUE).val) = [err |-> "none", val |-> i]

\* C3: for any two paths of the coding map a shorter path has a strictly
\* smaller index, and among paths of equal length the index order is the
\* lexicographic order.
C3_MonotoneNumbering ==
    (Constructed /\ Preconditions) => MonotoneNumbering

\* The o-tuples the admissibility rule allows, written out from the rule:
\* 0 <= j_k <= J * Qs[k] and j_k // Qs[k] < j_(k+1) // Qs[k+1].  An
\* admissible o-tuple is an admissible (o-1)-tuple extended by a coordinate
\* that the rule allows after its last one.
RECURSIVE AdmissibleTuples(_)
AdmissibleTuples(o) ==
    IF o = 0 THEN {<<>>}
    ELSE LET allowed == {x \in AdmissibleTuples(o - 1) \X (0..(J * Qs[o])) :
                            o = 1 \/ (x[1][o - 1] \div Qs[o - 1]) < (x[2] \div Qs[o])}
         IN {Append(x[1], x[2]) : x \in allowed}

NoDuplicates(table) ==
    \A i \in 1..Len(table), k \in 1..Len(table) : table[i] = table[k] => i = k

\* C4: for every order o in 1..r_max the order-o table holds, each exactly
\* once, exactly the admissible o-tuples: none that violates the rule and
\* none missing.
C4_AdmissibilityClosure ==
    PathsBuilt =>
        \A o \in 1..r_max :
            /\ NoDuplicates(sc_paths[o])
            /\ Rows(sc_paths[o]) = AdmissibleTuples(o)

\* C4 witness: with densities (2, 1) the pair (1, 1) is enumerated, (2, 1)
\* is within the ranges and is not.
C4_Witness ==
    /\ Constructed /\ Preconditions
    /\ J = 2 /\ r_max = 2 /\ Qs = <<2, 1>>
    /\ <<1, 1>> \in Rows(sc_paths[2])
    /\ <<2, 1>> \notin Rows(sc_paths[2])
    /\ <<4, 2>> \notin Rows(sc_paths[2])

\* C5: for every enumerated path p of order k, is_low_pass(path_to_idx(p))
\* is true exactly when the last coordinate of p is J * Qs[k].
C5_LowPassCorrect ==
    Constructed =>
        \A k \in 1..r_max :
            \A p \in Rows(sc_paths[k]) :
                is_low_pass(path_to_idx(p).val) =
                    [err |-> "none", val |-> (p[k] = J * Qs[k])]

\* C5 witness: is_low_pass has answered true for a second-order path and the
\* coding map also holds a second-order path that is not low-pass.
C5_Witness ==
    /\ Constructed /\ Preconditions
    /\ last.op = "is_low_pass"
    /\ last.res = [err |-> "none", val |-> TRUE]
    /\ Len(idx_to_path(last.idx, TRUE).val) = 2
    /\ \E p \in Rows(sc_paths[2]) : is_low_pass(path_to_idx(p).val).val = FALSE

\* C6: a coding map that violates the monotone numbering never belongs to a
\* constructed indexer, also under the preconditions: the ordering check
\* fails the construction.
C6_OrderingCheckRejects ==
    (Preconditions /\ CodingBuilt /\ ~MonotoneNumbering) => pc # "ready"

\* C7: a malformed configuration is rejected before any path is enumerated
\* and never yields a constructed indexer.
C7_MalformedRejected ==
    Malformed => (pc # "ready" /\ Len(sc_paths) = 0)

\* The first coordinates of the order-2 paths, and the order-1 coordinates
\* below JQ(1).
FirstCoordinates == {p[1] : p \in Rows(sc_paths[2])}

ProperOrderOne == {p[1] : p \in {q \in Rows(sc_paths[1]) : q[1] < J * Qs[1]}}

UnitDensities == \A o \in 1..Len(Qs) : Qs[o] = 1

\* C8: with J >= 1, every density 1 and r_max >= 2, the first coordinates of
\* the order-2 paths are exactly the order-1 coordinates below JQ(1); the
\* collapse check passes wherever checks() evaluates it and never fails the
\* construction.
C8_Collapse ==
    (PathsBuilt /\ UnitDensities /\ r_max >= 2) =>
        /\ FirstCoordinates = ProperOrderOne
        /\ pc \in {"checks", "ready"} => CollapseCheck
        /\ err # "AssertionError: collapse"

\* C8 witness: a unit-density configuration of order 2 whose construction ran
\* the collapse check and completed.
C8_Witness ==
    /\ Constructed /\ Preconditions
    /\ UnitDensities /\ r_max = 2 /\ J = 2
    /\ CollapseApplies
    /\ FirstCoordinates = 0..(J - 1)

\* C9 as stated: for every accepted index, the sentinel -1 included,
\* idx_to_path(i, squeeze=false) is a row of r_max elements: the squeezed
\* path followed by missing-value markers.
C9_PaddedRow ==
    (Constructed /\ Preconditions /\ last.op = "idx_to_path"
        /\ ~last.squeeze /\ last.res.err = "none") =>
        LET row == last.res.val
            p == idx_to_path(last.idx, TRUE).val
        IN /\ Len(row) = r_max
           /\ SubSeq(row, 1, Len(p)) = p
           /\ \A k \in (Len(p) + 1)..Len(row) : row[k] = NA

\* C9 amended: for every assigned index idx_to_path(i, squeeze=false) is a
\* row of r_max elements, the squeezed path followed by missing-value
\* markers; for the sentinel -1 it is the empty path, not padded.
C9_PaddedRowAssigned ==
    (Constructed /\ Preconditions /\ last.op = "idx_to_path"
        /\ ~last.squeeze /\ last.res.err = "none") =>
        LET row == last.res.val
            p == idx_to_path(last.idx, TRUE).val
        IN IF last.idx = -1 THEN Len(row) = 0
           ELSE /\ last.idx \in AssignedIdces
                /\ Len(row) = r_max
                /\ Len(p) <= r_max
                /\ SubSeq(row, 1, Len(p)) = p
                /\ \A k \in (Len(p) + 1)..Len(row) : row[k] = NA

\* C9 witness: an assigned index of a first-order path was decoded without
\* squeezing in an indexer of order 3, which pads two markers.
C9_Witness ==
    /\ Constructed /\ Preconditions
    /\ last.op = "idx_to_path" /\ ~last.squeeze
    /\ last.idx \in AssignedIdces
    /\ r_max = 3
    /\ Len(idx_to_path(last.idx, TRUE).val) = 1
    /\ last.res.val[2] = NA /\ last.res.val[3] = NA

\* C10: under the preconditions the order-o table is non-empty exactly when
\* o <= J + 1.
C10_NonEmptyOrders ==
    PathsBuilt =>
        \A o \in 1..r_max : (Len(sc_paths[o]) > 0 <=> o <= J + 1)

\* C10 witness: a valid configuration with r_max > J + 1 whose highest table
\* is empty while its first one is not.
C10_Witness ==
    /\ PathsBuilt
    /\ r_max > J + 1
    /\ Len(sc_paths[r_max]) = 0
    /\ Len(sc_paths[1]) > 0

====
